---- MODULE Spec2Model ----
(***************************************************************************)
(* A model of the quest log of pom: the `quest` table as SQLite keeps it,  *)
(* the QuestDao statements that read and write it (src/src/quest.rs) and   *)
(* the CLI handlers that call them (src/src/cli.rs).                       *)
(*                                                                         *)
(*   db            the rows of table `quest`, a function from rowid to     *)
(*                 [chain_id, objective, status, tier]; status and tier    *)
(*                 are the stored integers, chain_id is an Option<i64>.    *)
(*   foreign_keys  whether the SQLite library the program is linked with   *)
(*                 enforces FOREIGN KEY clauses.  The program never sets   *)
(*                 PRAGMA foreign_keys, so this is fixed by the build.     *)
(*   last          what the last CLI invocation did: the command, its      *)
(*                 argument, whether it prompted, the line typed, the      *)
(*                 outcome it reported, the table before it ran and the    *)
(*                 value it read or built, the table it showed, and the    *)
(*                 highest id an add had been given before it ran.         *)
(*   held          for each process that runs the program, what it keeps   *)
(*                 between two statements of its handler: the command, its *)
(*                 arguments, the quest it read and the statement it runs  *)
(*                 next, or that its statement never ends; None when the   *)
(*                 process runs no command.                                *)
(*                                                                         *)
(* Every handler runs statement by statement.  Spec is the CLI run by one  *)
(* process at a time, command after command, on a database that starts     *)
(* empty.  SpecDao, SpecAdd and SpecChains apply the cascading statements, *)
(* add_quest followed by get_quest, and get_all_chains once to each table  *)
(* of a bounded family of tables the CLI can leave behind; SpecChains      *)
(* applies is_main_quest and get_all_quests as well, SpecAdd update_quest. *)
(* SpecObjective is the CLI restricted to add and modify, with objectives  *)
(* that are empty or have spaces around them.  SpecDecode applies          *)
(* get_quest and get_all_quests to tables whose status and tier columns    *)
(* hold integers outside the enums, SpecConfirm applies                    *)
(* confirmation_warning to every short line, SpecTable adds rows to a      *)
(* Table, and SpecEnums is the CLI with every status and tier as argument. *)
(* SpecOverlap is two processes at a time: the statements of their         *)
(* commands run in any order, and a process whose statement never ends     *)
(* keeps the write lock until it is interrupted.                           *)
(***************************************************************************)
EXTENDS Integers, Sequences, FiniteSets, TLC

VARIABLES db, foreign_keys, last, held

vars == <<db, foreign_keys, last, held>>

----------------------------------------------------------------------------
(* Bounds *)

\* Largest rowid the table holds in the CLI state machine.
MaxId == 2

\* Largest rowid of the tables the cascading statements are applied to.
MaxDaoId == 3

\* Largest rowid of the tables add_quest is applied to.
MaxAddId == 2

\* Largest rowid of the quest lists get_all_chains is applied to.
MaxChainId == 4

\* The largest rowid of the tables get_quest and get_all_quests decode.
MaxDecodeId == 2

\* The largest number of chars of the lines typed at a prompt.
MaxLineLen == 5

\* The largest number of rows added to a table.
MaxRows == 3

\* The largest number of quests in the tables every status and tier is
\* written to.
MaxEnumRows == 1

----------------------------------------------------------------------------
(* Option<i64> *)

None == <<>>

Some(x) == <<x>>

----------------------------------------------------------------------------
(* Small helpers over sets and sequences *)

Min(S) == CHOOSE m \in S : \A x \in S : m <= x

Max(S) == CHOOSE m \in S : \A x \in S : x <= m

RECURSIVE Ascending(_)
\* The elements of a finite set of integers in ascending order.
Ascending(S) == IF S = {} THEN <<>>
                ELSE <<Min(S)>> \o Ascending(S \ {Min(S)})

Range(s) == {s[i] : i \in 1..Len(s)}

RECURSIVE Concat(_)
\* The concatenation of a sequence of sequences.
Concat(ss) == IF ss = <<>> THEN <<>> ELSE Head(ss) \o Concat(Tail(ss))

----------------------------------------------------------------------------
(* Status and Tier, and their integer encodings *)

Status == {"Pending", "Ongoing", "Completed", "Waiting", "Abandoned"}

Tier == {"Common", "Rare", "Epic", "Legendary"}

\* `status as i64`
\* `as i64` of a Status whose discriminants start at 1.
Status_as_i64_from_one(s) == CASE s = "Pending"   -> 1
                               [] s = "Ongoing"   -> 2
                               [] s = "Completed" -> 3
                               [] s = "Waiting"   -> 4
                               [] s = "Abandoned" -> 5

Status_as_i64(s) == CASE s = "Pending"   -> 0
                      [] s = "Ongoing"   -> 1
                      [] s = "Completed" -> 2
                      [] s = "Waiting"   -> 3
                      [] s = "Abandoned" -> 4

\* Status::from(i64); "panic" stands for the panic of the last arm.
\* Status::from with Pending in the place of the panic.
Status_from_or_pending(value) == CASE value = 0 -> "Pending"
                                   [] value = 1 -> "Ongoing"
                                   [] value = 2 -> "Completed"
                                   [] value = 3 -> "Waiting"
                                   [] value = 4 -> "Abandoned"
                                   [] OTHER     -> "Pending"

Status_from(value) == CASE value = 0 -> "Pending"
                        [] value = 1 -> "Ongoing"
                        [] value = 2 -> "Completed"
                        [] value = 3 -> "Waiting"
                        [] value = 4 -> "Abandoned"
                        [] OTHER     -> "panic"

\* `tier as i64`
Tier_as_i64(t) == CASE t = "Common"    -> 0
                    [] t = "Rare"      -> 1
                    [] t = "Epic"      -> 2
                    [] t = "Legendary" -> 3

\* Tier::from(i64); "panic" stands for the panic of the last arm.
Tier_from(value) == CASE value = 0 -> "Common"
                      [] value = 1 -> "Rare"
                      [] value = 2 -> "Epic"
                      [] value = 3 -> "Legendary"
                      [] OTHER     -> "panic"

----------------------------------------------------------------------------
(* Quest and Chain *)

UNINITIALIZED_ID == 0 - 1

Quest_new_impl(id, chain_id, objective, status, tier) ==
    [id |-> id, chain_id |-> chain_id, objective |-> objective,
     status |-> status, tier |-> tier]

Quest_new(objective, status, tier, chain_id) ==
    Quest_new_impl(UNINITIALIZED_ID, chain_id, objective, status, tier)

Chain_new(main) == [chains |-> <<>>, main |-> main]

----------------------------------------------------------------------------
(* The SQLite side: rowids, statements, foreign keys *)

\* The rowid SQLite gives to a row inserted without one into a table whose
\* key is INTEGER PRIMARY KEY (not AUTOINCREMENT): one more than the largest.
NextRowId(store) == IF DOMAIN store = {} THEN 1 ELSE Max(DOMAIN store) + 1

\* FOREIGN KEY (chain_id) REFERENCES quest(id), checked when a statement
\* ends: every non-NULL chain_id names a row of the table.
ForeignKeyHolds(store) ==
    \A r \in DOMAIN store :
        store[r].chain_id # None => store[r].chain_id[1] \in DOMAIN store

\* Execute without the transaction: a statement that fails has already written
\* its first row.
Execute_torn(before, after, fk, fault) ==
    LET changed == {r \in DOMAIN before :
                       r \notin DOMAIN after \/ after[r] # before[r]}
        first == Min(changed)
        torn == IF changed = {} THEN before
                ELSE [r \in DOMAIN before \ ({first} \ DOMAIN after) |->
                         IF r = first THEN after[r] ELSE before[r]]
    IN IF fault \/ (fk /\ ~ForeignKeyHolds(after))
       THEN [db |-> torn, err |-> "panic"]
       ELSE [db |-> after, err |-> "ok"]

\* A statement runs in its own transaction.  It commits `after`, or it fails
\* (the database is locked by another connection when the statement starts:
\* SQLITE_BUSY; a violated constraint) and the table stays `before`.
Execute(before, after, fk, fault) ==
    IF fault \/ (fk /\ ~ForeignKeyHolds(after))
    THEN [db |-> before, err |-> "panic"]
    ELSE [db |-> after, err |-> "ok"]

\* The rows of table quest decoded as the two SELECTs of QuestDao decode them.
DecodeRow(store, id) ==
    Quest_new_impl(id, store[id].chain_id, store[id].objective,
                   Status_from(store[id].status), Tier_from(store[id].tier))

Decodes(store, id) ==
    /\ Status_from(store[id].status) # "panic"
    /\ Tier_from(store[id].tier) # "panic"

----------------------------------------------------------------------------
(* QuestDao *)

\* add_quest with status and tier bound to each other's parameter.
add_quest_swapped(store, fk, quest, fault) ==
    LET id  == NextRowId(store)
        row == [chain_id  |-> quest.chain_id,
                objective |-> quest.objective,
                status    |-> Tier_as_i64(quest.tier),
                tier      |-> Status_as_i64(quest.status)]
    IN Execute(store, (id :> row) @@ store, fk, fault)

\* QuestDao::add_quest: INSERT INTO quest (objective, status, tier, chain_id).
add_quest(store, fk, quest, fault) ==
    LET id  == NextRowId(store)
        row == [chain_id  |-> quest.chain_id,
                objective |-> quest.objective,
                status    |-> Status_as_i64(quest.status),
                tier      |-> Tier_as_i64(quest.tier)]
    IN Execute(store, (id :> row) @@ store, fk, fault)

\* The rows of table quest whose chain_id is `id`, in rowid order.
ChildRows(store, id) ==
    SelectSeq(Ascending(DOMAIN store), LAMBDA r : store[r].chain_id = Some(id))

RECURSIVE chain_levels(_, _, _)
\* The recursive part of `WITH RECURSIVE chain ... UNION ALL`: the rows the
\* join adds for the rows of `level`, then for those rows, and so on until a
\* level is empty.  No duplicate is removed.  `fuel` counts the levels left
\* before the rows seen must lie on a cycle: the query then never ends.
chain_levels(store, level, fuel) ==
    IF level = <<>> THEN [rows |-> <<>>, diverges |-> FALSE]
    ELSE IF fuel = 0 THEN [rows |-> level, diverges |-> TRUE]
    ELSE LET next == Concat([i \in 1..Len(level) |-> ChildRows(store, level[i])])
             rest == chain_levels(store, next, fuel - 1)
         IN [rows |-> level \o rest.rows, diverges |-> rest.diverges]

\* WITH RECURSIVE chain AS (SELECT id FROM quest WHERE id = ?1 OR chain_id = ?1
\*   UNION ALL SELECT quest.id FROM quest INNER JOIN chain ON quest.chain_id = chain.id)
chain(store, chain_id) ==
    chain_levels(store,
                 SelectSeq(Ascending(DOMAIN store),
                           LAMBDA r : r = chain_id \/ store[r].chain_id = Some(chain_id)),
                 Cardinality(DOMAIN store))

\* QuestDao::delete_chain: DELETE FROM quest WHERE id IN (SELECT id FROM chain).
\* A locked database fails the statement when it starts, before a row of the
\* recursive query is computed; otherwise a query that does not end keeps the
\* statement from ever writing.
delete_chain(store, fk, chain_id, fault) ==
    LET cte  == chain(store, chain_id)
        keep == DOMAIN store \ Range(cte.rows)
    IN IF cte.diverges
       THEN [db |-> store, err |-> IF fault THEN "panic" ELSE "hang"]
       ELSE Execute(store, [r \in keep |-> store[r]], fk, fault)

\* update_chain_status without the recursive part of the query: the quest
\* and its direct children only.
update_chain_status_direct(store, fk, chain_id, status, fault) ==
    Execute(store,
            [r \in DOMAIN store |->
                IF r = chain_id \/ store[r].chain_id = Some(chain_id)
                THEN [store[r] EXCEPT !.status = Status_as_i64(status)]
                ELSE store[r]],
            fk, fault)

\* QuestDao::update_chain_status:
\* UPDATE quest SET status = ?2 WHERE id IN (SELECT id FROM chain).
update_chain_status(store, fk, chain_id, status, fault) ==
    LET cte == chain(store, chain_id)
    IN IF cte.diverges
       THEN [db |-> store, err |-> IF fault THEN "panic" ELSE "hang"]
       ELSE Execute(store,
                    [r \in DOMAIN store |->
                        IF r \in Range(cte.rows)
                        THEN [store[r] EXCEPT !.status = Status_as_i64(status)]
                        ELSE store[r]],
                    fk, fault)

\* QuestDao::update_quest: UPDATE quest SET chain_id, objective, status, tier
\* WHERE id = ?5.  A statement that matches no row changes nothing and succeeds.
update_quest(store, fk, quest, fault) ==
    Execute(store,
            [r \in DOMAIN store |->
                IF r = quest.id
                THEN [chain_id  |-> quest.chain_id,
                      objective |-> quest.objective,
                      status    |-> Status_as_i64(quest.status),
                      tier      |-> Tier_as_i64(quest.tier)]
                ELSE store[r]],
            fk, fault)

\* get_quest with a quest of default fields for an id that has no row.
get_quest_or_default(store, quest_id) ==
    IF quest_id \notin DOMAIN store
    THEN [quest |-> Quest_new_impl(quest_id, None, <<>>, "Pending", "Common"),
          err |-> "ok"]
    ELSE IF Decodes(store, quest_id)
         THEN [quest |-> DecodeRow(store, quest_id), err |-> "ok"]
         ELSE [quest |-> None, err |-> "panic"]

\* QuestDao::get_quest: query_row(...).expect(..) panics when no row matches,
\* and the decoding of status and tier panics on an unknown integer.
get_quest(store, quest_id) ==
    IF quest_id \in DOMAIN store /\ Decodes(store, quest_id)
    THEN [quest |-> DecodeRow(store, quest_id), err |-> "ok"]
    ELSE [quest |-> None, err |-> "panic"]

\* QuestDao::is_main_quest: SELECT COUNT() FROM quest WHERE chain_id = ?1, > 0.
is_main_quest(store, quest_id) ==
    Cardinality({r \in DOMAIN store : store[r].chain_id = Some(quest_id)}) > 0

\* get_all_quests with the rows in descending order of id.
get_all_quests_descending(store) ==
    IF \A r \in DOMAIN store : Decodes(store, r)
    THEN [quests |-> [i \in 1..Cardinality(DOMAIN store) |->
                         DecodeRow(store,
                                   Ascending(DOMAIN store)
                                       [Cardinality(DOMAIN store) + 1 - i])],
          err |-> "ok"]
    ELSE [quests |-> <<>>, err |-> "panic"]

\* QuestDao::get_all_quests: SELECT ... FROM quest ORDER BY id.
get_all_quests(store) ==
    IF \A r \in DOMAIN store : Decodes(store, r)
    THEN [quests |-> [i \in 1..Cardinality(DOMAIN store) |->
                         DecodeRow(store, Ascending(DOMAIN store)[i])],
          err |-> "ok"]
    ELSE [quests |-> <<>>, err |-> "panic"]

\* connect that leaves the children as they were copied into their parent.
connect_snapshot(chain_, disjoint_chains) ==
    [chain |-> chain_, disjoint_chains |-> disjoint_chains, err |-> "ok"]

RECURSIVE connect(_, _), connect_children(_, _, _)
\* QuestDao::connect.  The result carries the chain as rebuilt, the lookup as
\* left, and "panic" when a remove(..).unwrap() found no entry.
connect(chain_, disjoint_chains) ==
    IF chain_.chains = <<>>
    THEN [chain |-> chain_, disjoint_chains |-> disjoint_chains, err |-> "ok"]
    ELSE connect_children(chain_, 1, disjoint_chains)

\* The loop of connect with the entry of the child read and left in the lookup.
connect_children_keep(chain_, i, disjoint_chains) ==
    IF i > Len(chain_.chains)
    THEN [chain |-> chain_, disjoint_chains |-> disjoint_chains, err |-> "ok"]
    ELSE LET child_chain == chain_.chains[i]
             id == child_chain.main.id
         IN IF id \notin DOMAIN disjoint_chains
            THEN [chain |-> chain_, disjoint_chains |-> disjoint_chains,
                  err |-> "panic"]
            ELSE LET sub == connect([child_chain EXCEPT
                                        !.chains = disjoint_chains[id].chains],
                                    disjoint_chains)
                 IN IF sub.err # "ok"
                    THEN [chain |-> [chain_ EXCEPT !.chains[i] = sub.chain],
                          disjoint_chains |-> sub.disjoint_chains,
                          err |-> "panic"]
                    ELSE connect_children(
                             [chain_ EXCEPT !.chains[i] = sub.chain],
                             i + 1, sub.disjoint_chains)

\* The loop `for child_chain in &mut chain.chains` of connect, from child i on.
connect_children(chain_, i, disjoint_chains) ==
    IF i > Len(chain_.chains)
    THEN [chain |-> chain_, disjoint_chains |-> disjoint_chains, err |-> "ok"]
    ELSE LET child_chain == chain_.chains[i]
             id == child_chain.main.id
         IN IF id \notin DOMAIN disjoint_chains
            THEN [chain |-> chain_, disjoint_chains |-> disjoint_chains,
                  err |-> "panic"]
            ELSE LET removed == [k \in DOMAIN disjoint_chains \ {id} |->
                                    disjoint_chains[k]]
                     sub == connect([child_chain EXCEPT
                                        !.chains = disjoint_chains[id].chains],
                                    removed)
                 IN IF sub.err # "ok"
                    THEN [chain |-> [chain_ EXCEPT !.chains[i] = sub.chain],
                          disjoint_chains |-> sub.disjoint_chains,
                          err |-> "panic"]
                    ELSE connect_children(
                             [chain_ EXCEPT !.chains[i] = sub.chain],
                             i + 1, sub.disjoint_chains)

RECURSIVE build_chains(_, _, _, _)
\* The first loop of get_all_chains with the child put at the front of its
\* parent's list.
build_chains_front(quests, i, disjoint_chains, root_chains) ==
    IF i > Len(quests)
    THEN [disjoint_chains |-> disjoint_chains, root_chains |-> root_chains,
          err |-> "ok"]
    ELSE LET chain_ == Chain_new(quests[i])
             inserted == [k \in DOMAIN disjoint_chains \cup {chain_.main.id} |->
                             IF k = chain_.main.id THEN chain_
                             ELSE disjoint_chains[k]]
         IN IF chain_.main.chain_id # None
            THEN LET chain_id == chain_.main.chain_id[1]
                 IN IF chain_id \notin DOMAIN inserted
                    THEN [disjoint_chains |-> inserted,
                          root_chains |-> root_chains, err |-> "panic"]
                    ELSE build_chains(quests, i + 1,
                             [inserted EXCEPT ![chain_id].chains =
                                                  <<chain_>> \o @],
                             root_chains)
            ELSE build_chains(quests, i + 1, inserted,
                              Append(root_chains, chain_.main.id))

\* The first loop of get_all_chains, from quest i on: every quest becomes a
\* chain of its own in the lookup, and a copy of it is pushed onto its parent's
\* entry; a quest without parent is recorded as a root.
build_chains(quests, i, disjoint_chains, root_chains) ==
    IF i > Len(quests)
    THEN [disjoint_chains |-> disjoint_chains, root_chains |-> root_chains,
          err |-> "ok"]
    ELSE LET chain_ == Chain_new(quests[i])
             inserted == [k \in DOMAIN disjoint_chains \cup {chain_.main.id} |->
                             IF k = chain_.main.id THEN chain_
                             ELSE disjoint_chains[k]]
         IN IF chain_.main.chain_id # None
            THEN LET chain_id == chain_.main.chain_id[1]
                 IN IF chain_id \notin DOMAIN inserted
                    THEN [disjoint_chains |-> inserted,
                          root_chains |-> root_chains, err |-> "panic"]
                    ELSE build_chains(quests, i + 1,
                             [inserted EXCEPT ![chain_id].chains =
                                                  Append(@, chain_)],
                             root_chains)
            ELSE build_chains(quests, i + 1, inserted,
                              Append(root_chains, chain_.main.id))

RECURSIVE connect_roots(_, _, _, _)
\* The second loop of get_all_chains, from root i on.
connect_roots(root_chains, i, disjoint_chains, chains) ==
    IF i > Len(root_chains)
    THEN [chains |-> chains, disjoint_chains |-> disjoint_chains, err |-> "ok"]
    ELSE IF root_chains[i] \notin DOMAIN disjoint_chains
    THEN [chains |-> chains, disjoint_chains |-> disjoint_chains,
          err |-> "panic"]
    ELSE LET id == root_chains[i]
             sub == connect(disjoint_chains[id],
                            [k \in DOMAIN disjoint_chains \ {id} |->
                                disjoint_chains[k]])
         IN IF sub.err # "ok"
            THEN [chains |-> chains, disjoint_chains |-> sub.disjoint_chains,
                  err |-> "panic"]
            ELSE connect_roots(root_chains, i + 1, sub.disjoint_chains,
                               Append(chains, sub.chain))

\* get_all_chains after the quests were read.
chains_of(quests) ==
    LET built == build_chains(quests, 1, <<>>, <<>>)
    IN IF built.err # "ok"
       THEN [chains |-> <<>>, disjoint_chains |-> built.disjoint_chains,
             err |-> "panic"]
       ELSE connect_roots(built.root_chains, 1, built.disjoint_chains, <<>>)

\* QuestDao::get_all_chains.
get_all_chains(store) ==
    LET read == get_all_quests(store)
    IN IF read.err # "ok"
       THEN [chains |-> <<>>, disjoint_chains |-> <<>>, err |-> "panic"]
       ELSE chains_of(read.quests)

----------------------------------------------------------------------------
(* Text: a string is the sequence of its characters *)

\* The chars of Unicode property White_Space, which str::trim removes.  A char
\* outside ASCII, and a control char TLA+ has no escape for, is named by its
\* code point.
WhiteSpace ==
    {"\t", "\n", "U+000B", "U+000C", "\r", " ", "U+0085", "U+00A0", "U+1680",
     "U+2000", "U+2001", "U+2002", "U+2003", "U+2004", "U+2005", "U+2006",
     "U+2007", "U+2008", "U+2009", "U+200A", "U+2028", "U+2029", "U+202F",
     "U+205F", "U+3000"}

RECURSIVE trim_start(_)
trim_start(s) == IF s # <<>> /\ Head(s) \in WhiteSpace THEN trim_start(Tail(s))
                 ELSE s

RECURSIVE trim_end(_)
trim_end(s) == IF s # <<>> /\ s[Len(s)] \in WhiteSpace
               THEN trim_end(SubSeq(s, 1, Len(s) - 1))
               ELSE s

\* str::trim_start in the place of str::trim.
trim_leading(s) == trim_start(s)

\* str::trim
trim(s) == trim_end(trim_start(s))

\* str::to_lowercase, on the letters the inputs are made of.
to_lowercase(s) ==
    [i \in 1..Len(s) |-> CASE s[i] = "Y" -> "y"
                           [] s[i] = "E" -> "e"
                           [] s[i] = "S" -> "s"
                           [] s[i] = "N" -> "n"
                           [] s[i] = "O" -> "o"
                           [] OTHER -> s[i]]

----------------------------------------------------------------------------
(* Cli *)

(***************************************************************************)
(* Every invocation is a process with its own connection.  A handler runs  *)
(* its statements one after the other, each in a transaction of its own,   *)
(* and abandon and complete wait for the answer to the prompt between two  *)
(* of them: each statement is an action, and a statement of another        *)
(* process can run between two statements of one.  held[p] is what process *)
(* p keeps between two statements: the handler, its arguments, the quest   *)
(* it read and the statement it runs next.  add, delete and log run one    *)
(* statement.                                                              *)
(***************************************************************************)

\* The processes that run the program at a time.
Process == {"P1", "P2"}

\* No process is running.
Idle == [p \in Process |-> None]

\* A statement of another process holds the write lock: its recursive query
\* never ends.  A write of p then fails with SQLITE_BUSY.
Locked(p) == \E q \in Process \ {p} : held[q] # None /\ held[q].pc = "hang"

\* A process in a statement that never ends.
Hanging(op, quest_id) == [op |-> op, quest_id |-> quest_id, pc |-> "hang"]

\* confirmation_warning that takes the empty answer for a yes.
confirmation_warning_default_yes(line) ==
    LET input == to_lowercase(trim(line))
    IN input = <<"y">> \/ input = <<"y", "e", "s">> \/ input = <<>>

\* Cli::confirmation_warning, given the line read from standard input.
confirmation_warning(line) ==
    LET input == to_lowercase(trim(line))
    IN input = <<"y">> \/ input = <<"y", "e", "s">>

\* The record kept of an invocation when it ends, or when its statement is
\* found never to end.  `input` is the line typed when the command prompted
\* and the empty line when it did not; `before` is the table before the last
\* statement of the invocation; `fault` is whether another process held the
\* write lock then; `seen` is the stored status of the quest when the
\* invocation read it, None when it had no row, and `child` whether a row
\* named the quest as its parent when the invocation looked for one.  For an
\* invocation of one statement both are read off `before`.
Invocation(p, op, quest_id, asked, line, report, result) ==
    [op |-> op, quest_id |-> quest_id, arg |-> None, fault |-> Locked(p),
     asked |-> asked, input |-> IF asked THEN line ELSE <<>>,
     report |-> report, before |-> db, result |-> result, table |-> None,
     seen |-> IF quest_id \in DOMAIN db THEN Some(db[quest_id].status) ELSE None,
     child |-> \E r \in DOMAIN db : db[r].chain_id = Some(quest_id),
     high |-> IF last.op = "add" /\ last.report = "added"
              THEN Max({last.high, last.quest_id}) ELSE last.high]

\* What a handler prints after a write: its own message when the statement
\* succeeded, otherwise how the statement ended ("panic", "hang").
Outcome(res, message) == IF res.err = "ok" THEN message ELSE res.err

\* Quest::status_mut, assigned through: *quest.status_mut() = status.
Quest_status_mut(quest, status) == [quest EXCEPT !.status = status]

\* Quest::objective_mut and Quest::tier_mut, which modify_quest calls and
\* quest.rs does not define: they are taken to borrow the field as
\* Quest::status_mut does.
Quest_objective_mut(quest, objective) == [quest EXCEPT !.objective = objective]

Quest_tier_mut(quest, tier) == [quest EXCEPT !.tier = tier]

\* The options of modify; an absent option is None, a given one Some(value).
ModifyArgs(objective, status, tier) ==
    [objective |-> objective, status |-> status, tier |-> tier]

\* The quest a handler passes to update_quest: accept_quest sets the status
\* of the quest it read, modify_quest the fields its options give.
Updated(op, quest, arg) ==
    IF op = "accept" THEN Quest_status_mut(quest, "Ongoing")
    ELSE LET first == IF arg.objective # None
                      THEN Quest_objective_mut(quest, arg.objective[1])
                      ELSE quest
             second == IF arg.status # None
                       THEN Quest_status_mut(first, arg.status[1]) ELSE first
         IN IF arg.tier # None THEN Quest_tier_mut(second, arg.tier[1])
            ELSE second

\* The status abandon_quest, accept_quest and complete_quest write, and what
\* the four handlers print.
StatusOf == [abandon |-> "Abandoned", accept |-> "Ongoing",
             complete |-> "Completed"]

Already == [abandon |-> "already abandoned", accept |-> "already accepted",
            complete |-> "already completed"]

Declined == [abandon |-> "not abandoned", complete |-> "not completed"]

Succeeded == [abandon |-> "abandoned", accept |-> "accepted",
              complete |-> "completed", modify |-> "modified"]

\* The record of an invocation of several statements when it ends: what it
\* saw of the quest is what the table held when its own statements read it.
HeldInvocation(p, asked, line, report) ==
    [Invocation(p, held[p].op, held[p].quest_id, asked, line, report, None)
        EXCEPT !.seen = held[p].seen,
               !.child = held[p].child]

\* The first statement without the return of abandon_quest, accept_quest and
\* complete_quest for a quest that has the status they write.
Cli_get_quest_no_return(p, op, quest_id, arg) ==
    LET got == get_quest(db, quest_id)
    IN /\ held[p] = None
       /\ UNCHANGED <<db, foreign_keys>>
       /\ IF got.err # "ok"
          THEN /\ last' = Invocation(p, op, quest_id, FALSE, <<>>, "panic", None)
               /\ held' = held
          ELSE /\ last' = last
               /\ held' = [held EXCEPT ![p] =
                              [op |-> op, quest_id |-> quest_id, arg |-> arg,
                               pc |-> IF op \in {"accept", "modify"}
                                      THEN "update_quest" ELSE "is_main_quest",
                               quest |-> got.quest, asked |-> FALSE,
                               seen |-> IF quest_id \in DOMAIN db
                                        THEN Some(db[quest_id].status)
                                        ELSE None,
                               child |-> FALSE]]

\* The first statement of abandon_quest, accept_quest, complete_quest and
\* modify_quest: get_quest, and the return of the first three when the quest
\* read has the status they write.
Cli_get_quest(p, op, quest_id, arg) ==
    LET got == get_quest(db, quest_id)
    IN /\ held[p] = None
       /\ UNCHANGED <<db, foreign_keys>>
       /\ IF got.err # "ok"
          THEN /\ last' = Invocation(p, op, quest_id, FALSE, <<>>, "panic", None)
               /\ held' = held
          ELSE IF op # "modify" /\ got.quest.status = StatusOf[op]
          THEN /\ last' = Invocation(p, op, quest_id, FALSE, <<>>, Already[op],
                                     None)
               /\ held' = held
          ELSE /\ last' = last
               /\ held' = [held EXCEPT ![p] =
                              [op |-> op, quest_id |-> quest_id, arg |-> arg,
                               pc |-> IF op \in {"accept", "modify"}
                                      THEN "update_quest" ELSE "is_main_quest",
                               quest |-> got.quest, asked |-> FALSE,
                               seen |-> IF quest_id \in DOMAIN db
                                        THEN Some(db[quest_id].status)
                                        ELSE None,
                               child |-> FALSE]]

\* The second statement of abandon_quest and complete_quest: is_main_quest.
\* When it is true the handler prompts and waits for the line.
Cli_is_main_quest(p) ==
    /\ held[p] # None
    /\ held[p].pc = "is_main_quest"
    /\ UNCHANGED <<db, foreign_keys, last>>
    /\ held' = [held EXCEPT
                   ![p].pc = "update_chain_status",
                   ![p].asked = is_main_quest(db, held[p].quest_id),
                   ![p].child = \E r \in DOMAIN db :
                                   db[r].chain_id = Some(held[p].quest_id)]

\* The end of abandon_quest and complete_quest: the answer when the handler
\* prompted, and update_chain_status.  A statement that never ends keeps the
\* process, and the write lock with it.
Cli_update_chain_status(p, line) ==
    /\ held[p] # None
    /\ held[p].pc = "update_chain_status"
    /\ UNCHANGED foreign_keys
    /\ LET res == update_chain_status(db, foreign_keys, held[p].quest_id,
                                      StatusOf[held[p].op], Locked(p))
       IN IF held[p].asked /\ ~confirmation_warning(line)
          THEN /\ db' = db
               /\ last' = HeldInvocation(p, TRUE, line, Declined[held[p].op])
               /\ held' = [held EXCEPT ![p] = None]
          ELSE /\ db' = res.db
               /\ last' = HeldInvocation(p, held[p].asked, line,
                                         Outcome(res, Succeeded[held[p].op]))
               /\ held' = [held EXCEPT ![p] =
                              IF res.err = "hang"
                              THEN Hanging(held[p].op, held[p].quest_id)
                              ELSE None]

\* The end of accept_quest and modify_quest: update_quest of the quest read,
\* with the fields the handler set.
Cli_update_quest(p) ==
    /\ held[p] # None
    /\ held[p].pc = "update_quest"
    /\ UNCHANGED foreign_keys
    /\ held' = [held EXCEPT ![p] = None]
    /\ LET res == update_quest(db, foreign_keys,
                               Updated(held[p].op, held[p].quest, held[p].arg),
                               Locked(p))
       IN /\ db' = res.db
          /\ last' = HeldInvocation(p, FALSE, <<>>,
                                    Outcome(res, Succeeded[held[p].op]))

\* Cli::add_quest
Cli_add_quest(p, objective, status, tier, chain_id) ==
    LET quest == Quest_new(trim(objective), status, tier, chain_id)
        res == add_quest(db, foreign_keys, quest, Locked(p))
    IN /\ held[p] = None
       /\ NextRowId(db) <= MaxId
       /\ UNCHANGED <<foreign_keys, held>>
       /\ db' = res.db
       /\ last' = Invocation(p, "add", NextRowId(db), FALSE, <<>>,
                             Outcome(res, "added"), None)

\* delete_quest with the test of the answer inverted.
Cli_delete_quest_inverted(p, quest_id, line) ==
    LET res == delete_chain(db, foreign_keys, quest_id, Locked(p))
    IN /\ held[p] = None
       /\ UNCHANGED foreign_keys
       /\ IF confirmation_warning(line)
          THEN /\ UNCHANGED <<db, held>>
               /\ last' = Invocation(p, "delete", quest_id, TRUE, line,
                                     "not deleted", None)
          ELSE /\ db' = res.db
               /\ last' = Invocation(p, "delete", quest_id, TRUE, line,
                                     Outcome(res, "deleted"), None)
               /\ held' = IF res.err = "hang"
                          THEN [held EXCEPT ![p] = Hanging("delete", quest_id)]
                          ELSE held

\* Cli::delete_quest: the prompt, the answer and delete_chain, its one
\* statement.
Cli_delete_quest(p, quest_id, line) ==
    LET res == delete_chain(db, foreign_keys, quest_id, Locked(p))
    IN /\ held[p] = None
       /\ UNCHANGED foreign_keys
       /\ IF ~confirmation_warning(line)
          THEN /\ UNCHANGED <<db, held>>
               /\ last' = Invocation(p, "delete", quest_id, TRUE, line,
                                     "not deleted", None)
          ELSE /\ db' = res.db
               /\ last' = Invocation(p, "delete", quest_id, TRUE, line,
                                     Outcome(res, "deleted"), None)
               /\ held' = IF res.err = "hang"
                          THEN [held EXCEPT ![p] = Hanging("delete", quest_id)]
                          ELSE held

\* The user interrupts a process whose statement never ends: the statement
\* is rolled back and the write lock released.
Interrupt(p) ==
    /\ held[p] # None
    /\ held[p].pc = "hang"
    /\ UNCHANGED <<db, foreign_keys, last>>
    /\ held' = [held EXCEPT ![p] = None]

----------------------------------------------------------------------------
(* Table and Cell (src/src/table.rs) and the quest log *)

\* A string is the sequence of its chars.  The chars outside ASCII are named
\* by their code point: "U+2502" is the vertical bar of the tree, "U+2514"
\* the corner, "U+251C" the tee, "U+2500" the dash and "U+2726" the star.

Digit(d) == CASE d = 0 -> "0" [] d = 1 -> "1" [] d = 2 -> "2" [] d = 3 -> "3"
              [] d = 4 -> "4" [] d = 5 -> "5" [] d = 6 -> "6" [] d = 7 -> "7"
              [] d = 8 -> "8" [] d = 9 -> "9"

RECURSIVE Digits(_)
Digits(n) == IF n < 10 THEN <<Digit(n)>>
             ELSE Digits(n \div 10) \o <<Digit(n % 10)>>

\* i64::to_string
i64_to_string(value) == IF value < 0 THEN <<"-">> \o Digits(0 - value)
                        ELSE Digits(value)

\* impl Display for Status
Status_to_string(s) ==
    CASE s = "Pending"   -> <<"P", "e", "n", "d", "i", "n", "g">>
      [] s = "Ongoing"   -> <<"O", "n", "g", "o", "i", "n", "g">>
      [] s = "Completed" -> <<"C", "o", "m", "p", "l", "e", "t", "e", "d">>
      [] s = "Waiting"   -> <<"W", "a", "i", "t", "i", "n", "g">>
      [] s = "Abandoned" -> <<"A", "b", "a", "n", "d", "o", "n", "e", "d">>

\* impl Display for Tier.  Tier::to_colored_string colours this text; the
\* colour is no char of the content.
Tier_to_string(t) ==
    CASE t = "Common"    -> <<"U+2726", " ", "C", "o", "m", "m", "o", "n">>
      [] t = "Rare"      -> <<"U+2726", " ", "R", "a", "r", "e">>
      [] t = "Epic"      -> <<"U+2726", " ", "E", "p", "i", "c">>
      [] t = "Legendary" -> <<"U+2726", " ", "L", "e", "g", "e", "n", "d", "a",
                              "r", "y">>

\* Cell::width: content.chars().count()
Cell_width(cell) == Len(cell)

\* Table::new
Table_new(columns) ==
    [column_widths |-> [i \in 1..Len(columns) |-> Cell_width(columns[i])],
     columns |-> columns,
     rows |-> <<>>]

\* Table::add that records the width of the cell just added.
Table_add_latest(table, row) ==
    [column_widths |->
        [i \in 1..Len(table.column_widths) |->
            IF i <= Len(row) THEN Cell_width(row[i])
            ELSE table.column_widths[i]],
     columns |-> table.columns,
     rows |-> Append(table.rows, row)]

\* Table::add
Table_add(table, row) ==
    [column_widths |->
        [i \in 1..Len(table.column_widths) |->
            IF i <= Len(row) /\ Cell_width(row[i]) > table.column_widths[i]
            THEN Cell_width(row[i]) ELSE table.column_widths[i]],
     columns |-> table.columns,
     rows |-> Append(table.rows, row)]

\* The prefix Cli::populate_table puts before the objective, with the nesting
\* of every level read, not only that of the levels above `depth`.
populate_prefix_unsliced(depth, is_terminal, is_depth_nested) ==
    Concat([i \in 1..Len(is_depth_nested) |->
               IF is_depth_nested[i] THEN <<"U+2502", " ", " ", " ">>
               ELSE <<" ", " ", " ", " ">>])
        \o (IF is_terminal THEN <<"U+2514", "U+2500", "U+2500", " ">>
            ELSE <<"U+251C", "U+2500", "U+2500", " ">>)

\* The prefix Cli::populate_table puts before the objective: a bar or four
\* spaces for each of is_depth_nested[..depth], then the corner or the tee.
populate_prefix(depth, is_terminal, is_depth_nested) ==
    Concat([i \in 1..depth |->
               IF is_depth_nested[i] THEN <<"U+2502", " ", " ", " ">>
               ELSE <<" ", " ", " ", " ">>])
        \o (IF is_terminal THEN <<"U+2514", "U+2500", "U+2500", " ">>
            ELSE <<"U+251C", "U+2500", "U+2500", " ">>)

RECURSIVE populate_table(_, _, _, _, _), populate_chains(_, _, _, _, _)
\* Cli::populate_table: the row of the chain, the nesting of its depth set for
\* the time its children are added, and cleared afterwards.  The vector and
\* the table are &mut and come back as the value.
populate_table(chain_, depth, is_terminal, is_depth_nested, table) ==
    LET row == <<i64_to_string(chain_.main.id),
                 populate_prefix(depth, is_terminal, is_depth_nested)
                     \o chain_.main.objective,
                 Status_to_string(chain_.main.status),
                 Tier_to_string(chain_.main.tier)>>
        nested == IF depth < Len(is_depth_nested)
                  THEN [is_depth_nested EXCEPT ![depth + 1] = ~is_terminal]
                  ELSE Append(is_depth_nested, ~is_terminal)
        below == populate_chains(chain_, 1, depth, nested, Table_add(table, row))
    IN [is_depth_nested |->
            IF depth < Len(below.is_depth_nested)
            THEN [below.is_depth_nested EXCEPT ![depth + 1] = FALSE]
            ELSE below.is_depth_nested,
        table |-> below.table]

\* The loop of Cli::populate_table over the children, from the i-th on.
populate_chains(chain_, i, depth, is_depth_nested, table) ==
    IF i > Len(chain_.chains)
    THEN [is_depth_nested |-> is_depth_nested, table |-> table]
    ELSE LET done == populate_table(chain_.chains[i], depth + 1,
                                    i = Len(chain_.chains), is_depth_nested,
                                    table)
         IN populate_chains(chain_, i + 1, depth, done.is_depth_nested,
                            done.table)

RECURSIVE show_children(_, _, _)
\* The inner loop of Cli::show_quests: each child of a root is populated at
\* depth 0 with a vector of its own.
show_children(chain_, i, table) ==
    IF i > Len(chain_.chains) THEN table
    ELSE show_children(chain_, i + 1,
                       populate_table(chain_.chains[i], 0,
                                      i = Len(chain_.chains), <<>>,
                                      table).table)

RECURSIVE show_chains(_, _, _)
\* The outer loop of Cli::show_quests: the row of each root, then its children.
show_chains(chains, i, table) ==
    IF i > Len(chains) THEN table
    ELSE LET row == <<i64_to_string(chains[i].main.id),
                      chains[i].main.objective,
                      Status_to_string(chains[i].main.status),
                      Tier_to_string(chains[i].main.tier)>>
         IN show_chains(chains, i + 1,
                        show_children(chains[i], 1, Table_add(table, row)))

\* The table Cli::show_quests fills and shows.
show_table(chains) ==
    show_chains(chains, 1,
                Table_new(<<<<"I", "D">>,
                            <<"O", "b", "j", "e", "c", "t", "i", "v", "e">>,
                            <<"S", "t", "a", "t", "u", "s">>,
                            <<"T", "i", "e", "r">>>>))

\* Cli::show_quests: the chains it reads and the table it shows.
Cli_show_quests(p) ==
    LET read == get_all_chains(db)
    IN /\ held[p] = None
       /\ UNCHANGED <<db, foreign_keys, held>>
       /\ last' = [Invocation(p, "log", 0, FALSE, <<>>, Outcome(read, "shown"),
                              read.chains)
                     EXCEPT !.table = IF read.err = "ok"
                                      THEN show_table(read.chains) ELSE None]

----------------------------------------------------------------------------
(* The CLI state machine: one process at a time on one database *)

\* The arguments and the typed lines the invocations are given.
QuestIdArgs == 1..MaxId

ObjectiveArgs == {<<"a">>}

StatusArgs == {"Pending"}

TierArgs == {"Common"}

LineArgs == {<<"Y", "e", "s", "\n">>, <<"\n">>}

OptionOf(S) == {None} \cup {Some(x) : x \in S}

NoInvocation ==
    [op |-> "none", quest_id |-> 0, arg |-> None, fault |-> FALSE,
     asked |-> FALSE, input |-> <<>>, report |-> "none", before |-> <<>>,
     result |-> None, table |-> None, seen |-> None, child |-> FALSE,
     high |-> 0]

\* A database file that was just created: QuestDao::new created the table.
Init ==
    /\ db = <<>>
    /\ foreign_keys \in BOOLEAN
    /\ held = Idle
    /\ last = NoInvocation

\* One process at a time: it runs the next statement of its handler, or
\* starts a command when it runs none.
Next ==
    \/ \E op \in DOMAIN StatusOf, quest_id \in QuestIdArgs :
           Cli_get_quest("P1", op, quest_id, None)
    \/ \E quest_id \in QuestIdArgs, status \in OptionOf(StatusArgs) :
           Cli_get_quest("P1", "modify", quest_id,
                         ModifyArgs(None, status, None))
    \/ Cli_is_main_quest("P1")
    \/ \E line \in LineArgs : Cli_update_chain_status("P1", line)
    \/ Cli_update_quest("P1")
    \/ \E objective \in ObjectiveArgs, status \in StatusArgs, tier \in TierArgs,
          chain_id \in OptionOf(QuestIdArgs) :
           Cli_add_quest("P1", objective, status, tier, chain_id)
    \/ \E quest_id \in QuestIdArgs, line \in LineArgs :
           Cli_delete_quest("P1", quest_id, line)
    \/ Cli_show_quests("P1")
    \/ Interrupt("P1")

Spec == Init /\ [][Next]_vars

----------------------------------------------------------------------------
(* The tables an invocation can find *)

\* A row of each kind the tables are filled with.
RowKinds == {[objective |-> <<"a">>, status |-> 0, tier |-> 0],
             [objective |-> <<"b">>, status |-> 4, tier |-> 3]}

\* The chain_id a row of id r can hold: NULL, an earlier row that is still
\* there, or r itself; and any id at all when foreign keys are not enforced.
ChainIdFits(store, fk, r) ==
    IF store[r].chain_id = None \/ ~fk THEN TRUE
    ELSE store[r].chain_id[1] \in DOMAIN store /\ store[r].chain_id[1] <= r

\* The tables with rowids up to maxid.
Tables(maxid, kinds) ==
    LET rows == {[chain_id |-> chain_id, objective |-> k.objective,
                  status |-> k.status, tier |-> k.tier] :
                    chain_id \in OptionOf(1..maxid), k \in kinds}
    IN UNION {[ids -> rows] : ids \in SUBSET (1..maxid)}

TableFits(store, fk) == \A r \in DOMAIN store : ChainIdFits(store, fk, r)

----------------------------------------------------------------------------
(* The QuestDao statements, each applied once to a table *)

DaoCall(op, quest_id, arg, fault, report, result) ==
    [op |-> op, quest_id |-> quest_id, arg |-> arg, fault |-> fault,
     asked |-> FALSE, input |-> <<>>, report |-> report, before |-> db,
     result |-> result, table |-> None, seen |-> None, child |-> FALSE,
     high |-> 0]

Dao_delete_chain(chain_id, fault) ==
    LET res == delete_chain(db, foreign_keys, chain_id, fault)
    IN /\ last = NoInvocation
       /\ UNCHANGED <<foreign_keys, held>>
       /\ db' = res.db
       /\ last' = DaoCall("delete_chain", chain_id, None, fault, res.err, None)

Dao_update_chain_status(chain_id, status, fault) ==
    LET res == update_chain_status(db, foreign_keys, chain_id, status, fault)
    IN /\ last = NoInvocation
       /\ UNCHANGED <<foreign_keys, held>>
       /\ db' = res.db
       /\ last' = DaoCall("update_chain_status", chain_id, Some(status), fault,
                          res.err, None)

\* add_quest(quest), then get_quest of the row it inserted.
Dao_add_quest(quest) ==
    LET res == add_quest(db, foreign_keys, quest, FALSE)
        id == NextRowId(db)
    IN /\ last = NoInvocation
       /\ UNCHANGED <<foreign_keys, held>>
       /\ db' = res.db
       /\ last' = DaoCall("add_quest", id, Some(quest), FALSE, res.err,
                          IF res.err = "ok" THEN get_quest(res.db, id) ELSE None)

\* update_quest(quest), applied to a table that may hold no row of its id.
Dao_update_quest(quest) ==
    LET res == update_quest(db, foreign_keys, quest, FALSE)
    IN /\ last = NoInvocation
       /\ UNCHANGED <<foreign_keys, held>>
       /\ db' = res.db
       /\ last' = DaoCall("update_quest", quest.id, Some(quest), FALSE, res.err,
                          None)

Dao_is_main_quest(quest_id) ==
    /\ last = NoInvocation
    /\ UNCHANGED <<db, foreign_keys, held>>
    /\ last' = DaoCall("is_main_quest", quest_id, None, FALSE, "ok",
                       is_main_quest(db, quest_id))

Dao_get_quest(quest_id) ==
    LET got == get_quest(db, quest_id)
    IN /\ last = NoInvocation
       /\ UNCHANGED <<db, foreign_keys, held>>
       /\ last' = DaoCall("get_quest", quest_id, None, FALSE, got.err,
                          got.quest)

Dao_get_all_quests ==
    LET read == get_all_quests(db)
    IN /\ last = NoInvocation
       /\ UNCHANGED <<db, foreign_keys, held>>
       /\ last' = DaoCall("get_all_quests", 0, None, FALSE, read.err,
                          read.quests)

InitDao ==
    /\ foreign_keys \in BOOLEAN
    /\ held = Idle
    /\ db \in {t \in Tables(MaxDaoId, RowKinds) :
                   TableFits(t, foreign_keys)}
    /\ last = NoInvocation

NextDao ==
    \/ \E chain_id \in 1..MaxDaoId, fault \in BOOLEAN :
           Dao_delete_chain(chain_id, fault)
    \/ \E chain_id \in 1..MaxDaoId, status \in Status, fault \in BOOLEAN :
           Dao_update_chain_status(chain_id, status, fault)

SpecDao == InitDao /\ [][NextDao]_vars

----------------------------------------------------------------------------
(* add_quest, get_quest and update_quest, applied to a table *)

DaoQuestArgs ==
    {Quest_new(objective, status, tier, chain_id) :
        objective \in {<<"c">>, <<"c", " ", "d">>}, status \in Status,
        tier \in Tier, chain_id \in OptionOf(1..MaxAddId)}

InitAdd ==
    /\ foreign_keys \in BOOLEAN
    /\ held = Idle
    /\ db \in {t \in Tables(MaxAddId, RowKinds) :
                   TableFits(t, foreign_keys)}
    /\ last = NoInvocation

\* The quests update_quest is given: a caller holds them from get_quest and
\* has set fields of them.
UpdateQuestArgs ==
    {Quest_new_impl(id, chain_id, <<"c">>, status, "Epic") :
        id \in 1..MaxAddId, status \in {"Ongoing", "Waiting"},
        chain_id \in OptionOf(1..MaxAddId)}

NextAdd ==
    \/ \E quest \in DaoQuestArgs : Dao_add_quest(quest)
    \/ \E quest \in UpdateQuestArgs : Dao_update_quest(quest)

SpecAdd == InitAdd /\ [][NextAdd]_vars

----------------------------------------------------------------------------
(* The reads, applied to a table: the log, is_main_quest, get_all_quests *)

ChainRowKinds == {[objective |-> <<"a">>, status |-> 0, tier |-> 0]}

\* The table four adds leave: `Defeat dragon`, `Find sword` below 1,
\* `Sharpen sword` below 2 and `Train stamina` below 1.
DragonTable ==
    <<[chain_id |-> None, status |-> 0, tier |-> 0, objective |->
          <<"D", "e", "f", "e", "a", "t", " ", "d", "r", "a", "g", "o", "n">>],
      [chain_id |-> Some(1), status |-> 0, tier |-> 0, objective |->
          <<"F", "i", "n", "d", " ", "s", "w", "o", "r", "d">>],
      [chain_id |-> Some(2), status |-> 0, tier |-> 0, objective |->
          <<"S", "h", "a", "r", "p", "e", "n", " ", "s", "w", "o", "r", "d">>],
      [chain_id |-> Some(1), status |-> 0, tier |-> 0, objective |->
          <<"T", "r", "a", "i", "n", " ", "s", "t", "a", "m", "i", "n", "a">>]>>

InitChains ==
    /\ foreign_keys \in BOOLEAN
    /\ held = Idle
    /\ db \in {t \in Tables(MaxChainId, ChainRowKinds) :
                   TableFits(t, foreign_keys)} \cup {DragonTable}
    /\ last = NoInvocation

NextChains ==
    \/ Cli_show_quests("P1")
    \/ \E quest_id \in 1..MaxChainId : Dao_is_main_quest(quest_id)
    \/ Dao_get_all_quests

SpecChains == InitChains /\ [][NextChains]_vars

----------------------------------------------------------------------------
(* get_quest and get_all_quests, applied to a table another program wrote *)

\* Rows whose status or tier column holds an integer in or next to the range
\* of the enum: the columns are INTEGER NOT NULL and hold what was written.
DecodeRows ==
    {[chain_id |-> None, objective |-> <<"a">>, status |-> status, tier |-> 0] :
        status \in (0 - 1)..5}
    \cup {[chain_id |-> None, objective |-> <<"a">>, status |-> 0,
           tier |-> tier] : tier \in (0 - 1)..4}

InitDecode ==
    /\ foreign_keys \in BOOLEAN
    /\ held = Idle
    /\ db \in UNION {[ids -> DecodeRows] : ids \in SUBSET (1..MaxDecodeId)}
    /\ last = NoInvocation

NextDecode ==
    \/ \E quest_id \in 1..MaxDecodeId : Dao_get_quest(quest_id)
    \/ Dao_get_all_quests

SpecDecode == InitDecode /\ [][NextDecode]_vars

----------------------------------------------------------------------------
(* confirmation_warning, applied to a line *)

\* The chars the lines are made of.
LineChars == {"y", "Y", "e", "E", "s", "S", "n", " ", "U+00A0", "\n"}

\* The lines of n chars.
AnyLineArgs(n) == [1..n -> LineChars]

\* Cli::confirmation_warning on its own: the prompt, the line read and the
\* answer it returns.
Cli_confirmation_warning(line) ==
    /\ UNCHANGED <<db, foreign_keys, held>>
    /\ last' = [op |-> "confirmation_warning", quest_id |-> 0, arg |-> None,
                fault |-> FALSE, asked |-> TRUE, input |-> line,
                report |-> "ok", before |-> db,
                result |-> confirmation_warning(line), table |-> None,
                seen |-> None, child |-> FALSE, high |-> last.high]

\* One prompt, answered with any of the lines.
NextConfirm ==
    /\ last = NoInvocation
    /\ \E n \in 0..MaxLineLen :
           \E line \in AnyLineArgs(n) : Cli_confirmation_warning(line)

SpecConfirm == Init /\ [][NextConfirm]_vars

----------------------------------------------------------------------------
(* Table::new and Table::add, applied to cells of any width *)

\* Cells of width 0 to 3.
CellArgs == {<<>>, <<"a">>, <<"a", "b">>, <<"a", "b", "c">>}

\* A table of two columns, just constructed.
InitTable ==
    /\ db = <<>>
    /\ foreign_keys \in BOOLEAN
    /\ held = Idle
    /\ last = [NoInvocation EXCEPT
                  !.op = "table_new",
                  !.table = Table_new(<<<<"I", "D">>, <<"T">>>>)]

\* table.add(row); the table before the call is kept as the result.
Tbl_add(row) ==
    /\ UNCHANGED <<db, foreign_keys, held>>
    /\ last' = [last EXCEPT !.op = "table_add",
                            !.arg = Some(row),
                            !.result = last.table,
                            !.table = Table_add(last.table, row)]

NextTable ==
    /\ Len(last.table.rows) < MaxRows
    /\ \E first \in CellArgs, second \in CellArgs : Tbl_add(<<first, second>>)

SpecTable == InitTable /\ [][NextTable]_vars

----------------------------------------------------------------------------
(* The commands that write a status or a tier, with every value of the enums *)

NextEnums ==
    \/ /\ Cardinality(DOMAIN db) < MaxEnumRows
       /\ \E status \in Status, tier \in Tier :
              Cli_add_quest("P1", <<"a">>, status, tier, None)
    \/ \E quest_id \in QuestIdArgs, status \in OptionOf(Status),
          tier \in OptionOf(Tier) :
           Cli_get_quest("P1", "modify", quest_id,
                         ModifyArgs(None, status, tier))
    \/ \E op \in DOMAIN StatusOf, quest_id \in QuestIdArgs :
           Cli_get_quest("P1", op, quest_id, None)
    \/ Cli_is_main_quest("P1")
    \/ Cli_update_chain_status("P1", <<"y", "\n">>)
    \/ Cli_update_quest("P1")

SpecEnums == Init /\ [][NextEnums]_vars

----------------------------------------------------------------------------
(* add and modify with the objectives a command line can carry *)

\* The objective arguments: a word, a word between a space and a no-break
\* space, a space and the empty string.
AnyObjectiveArgs == {<<"a">>, <<" ", "a", "U+00A0">>, <<" ">>, <<>>}

NextObjective ==
    \/ \E objective \in AnyObjectiveArgs, status \in StatusArgs,
          tier \in TierArgs :
           Cli_add_quest("P1", objective, status, tier, None)
    \/ \E quest_id \in QuestIdArgs, objective \in AnyObjectiveArgs :
           Cli_get_quest("P1", "modify", quest_id,
                         ModifyArgs(Some(objective), None, None))
    \/ Cli_update_quest("P1")

SpecObjective == Init /\ [][NextObjective]_vars

----------------------------------------------------------------------------
(* Two invocations at a time *)

\* Largest rowid of the tables two invocations at a time start from.
MaxOverlapId == 2

\* A row of each status the commands write.
OverlapKinds == {[objective |-> <<"a">>, status |-> status, tier |-> 0] :
                    status \in {0, 1, 2, 4}}

\* A table in which every chain_id names a row that is there and is not a
\* later one, and whose rows have one status.
InitOverlap ==
    /\ foreign_keys \in BOOLEAN
    /\ held = Idle
    /\ db \in {t \in Tables(MaxOverlapId, OverlapKinds) :
                   /\ TableFits(t, TRUE)
                   /\ \A r, q \in DOMAIN t : t[r].status = t[q].status}
    /\ last = NoInvocation

\* Two processes run one command each, statement by statement and in any
\* order of their statements.  P1 is the one that starts first; P2 starts
\* while P1 runs, also when P1 is in a statement that never ends, and then
\* any number of times.
Starts(p) ==
    /\ held[p] = None
    /\ IF p = "P1" THEN last = NoInvocation /\ held = Idle
       ELSE /\ held["P1"] # None
            /\ last = NoInvocation \/ held["P1"].pc = "hang"

NextOverlap ==
    \E p \in Process :
        \/ /\ Starts(p)
           /\ \/ \E op \in DOMAIN StatusOf, quest_id \in 1..MaxOverlapId :
                     Cli_get_quest(p, op, quest_id, None)
              \/ \E quest_id \in 1..MaxOverlapId,
                    objective \in OptionOf({<<"b">>}) :
                     Cli_get_quest(p, "modify", quest_id,
                                   ModifyArgs(objective, None, None))
              \/ \E chain_id \in OptionOf(1..MaxOverlapId) :
                     Cli_add_quest(p, <<"b">>, "Pending", "Common", chain_id)
              \/ \E quest_id \in 1..MaxOverlapId, line \in LineArgs :
                     Cli_delete_quest(p, quest_id, line)
              \/ Cli_show_quests(p)
        \/ Cli_is_main_quest(p)
        \/ \E line \in LineArgs : Cli_update_chain_status(p, line)
        \/ Cli_update_quest(p)
        \/ Interrupt(p)

SpecOverlap == InitOverlap /\ [][NextOverlap]_vars

----------------------------------------------------------------------------
(* Vocabulary of the properties *)

\* Every chain_id names a row of the table with a smaller rowid.
ParentBeforeChild(store) ==
    \A r \in DOMAIN store :
        store[r].chain_id # None =>
            /\ store[r].chain_id[1] \in DOMAIN store
            /\ store[r].chain_id[1] < r

RECURSIVE ReachesIn(_, _, _, _)
\* Following chain_id from row r leads to `id` in at most `fuel` steps.
ReachesIn(store, r, id, fuel) ==
    /\ fuel > 0
    /\ r \in DOMAIN store
    /\ store[r].chain_id # None
    /\ \/ store[r].chain_id[1] = id
       \/ ReachesIn(store, store[r].chain_id[1], id, fuel - 1)

\* The rows of the chain of `id`: `id` itself and its transitive descendants.
Subtree(store, id) ==
    {r \in DOMAIN store :
        r = id \/ ReachesIn(store, r, id, Cardinality(DOMAIN store))}

HasChild(store, id) == \E r \in DOMAIN store : store[r].chain_id = Some(id)

\* The encoding of statuses the schema documents.
StatusCode == [Pending |-> 0, Ongoing |-> 1, Completed |-> 2, Waiting |-> 3,
               Abandoned |-> 4]

RECURSIVE Preorder(_)
\* The quests of a chain, parent first, children left to right.
Preorder(c) ==
    <<c.main>> \o Concat([i \in 1..Len(c.chains) |-> Preorder(c.chains[i])])

RECURSIVE ParentEdges(_)
\* The pairs <<id of a node, quest of one of its children>> of a chain.
ParentEdges(c) ==
    {<<c.main.id, c.chains[i].main>> : i \in 1..Len(c.chains)}
        \cup UNION {ParentEdges(c.chains[i]) : i \in 1..Len(c.chains)}

CascadingOps == {"abandon", "complete", "delete"}

\* The lines of LineArgs that say yes.
AffirmativeLines == {<<"Y", "e", "s", "\n">>}

----------------------------------------------------------------------------
(* Properties *)

\* C1: for a quest list in ascending id order in which every chain_id names an
\* earlier quest, get_all_chains returns a forest whose pre-order flattening
\* holds every quest exactly once, whose roots are the quests without chain_id
\* and in which every child's chain_id names its parent, at any depth.
C1_ForestCompleteness ==
    (last.op = "log" /\ ParentBeforeChild(last.before)) =>
        LET quests == get_all_quests(last.before).quests
            forest == last.result
            flat == Concat([i \in 1..Len(forest) |-> Preorder(forest[i])])
        IN /\ last.report = "shown"
           /\ Len(flat) = Len(quests)
           /\ Range(flat) = Range(quests)
           /\ {forest[i].main : i \in 1..Len(forest)}
                 = {q \in Range(quests) : q.chain_id = None}
           /\ \A i \in 1..Len(forest) : \A e \in ParentEdges(forest[i]) :
                 e[2].chain_id = Some(e[1])

\* A forest 1 <- {2 <- {4}, 3}: quest 4 arrives after quest 2 was copied
\* into the child list of quest 1, and is found below it all the same.
C1_Witness ==
    /\ last.op = "log"
    /\ ParentBeforeChild(last.before)
    /\ DOMAIN last.before = 1..4
    /\ last.before[1].chain_id = None
    /\ last.before[2].chain_id = Some(1)
    /\ last.before[3].chain_id = Some(1)
    /\ last.before[4].chain_id = Some(2)
    /\ Len(last.result) = 1
    /\ Len(last.result[1].chains) = 2
    /\ last.result[1].chains[1].chains[1].main.id = 4

\* C2: delete_chain(id) removes exactly id and the quests transitively
\* reachable from it through chain_id, and leaves every other row as it was.
C2_DeleteChainRemovesSubtree ==
    (last.op = "delete_chain" /\ ~last.fault) =>
        db = [r \in DOMAIN last.before \ Subtree(last.before, last.quest_id) |->
                 last.before[r]]

\* C3: update_chain_status(id, s) sets the status of id and of its transitive
\* descendants to s and changes nothing else.
C3_UpdateChainStatusFrame ==
    (last.op = "update_chain_status" /\ ~last.fault) =>
        db = [r \in DOMAIN last.before |->
                 IF r \in Subtree(last.before, last.quest_id)
                 THEN [last.before[r] EXCEPT !.status = StatusCode[last.arg[1]]]
                 ELSE last.before[r]]

\* The rows delete_chain(id) removes from a table.
Removed(store, fk, id) ==
    DOMAIN store \ DOMAIN delete_chain(store, fk, id, FALSE).db

\* The rows whose status update_chain_status(id, s) overwrites in a table: a
\* row already in status s shows under another s.
Overwritten(store, fk, id) ==
    UNION {LET updated == update_chain_status(store, fk, id, s, FALSE).db
           IN {r \in DOMAIN store : updated[r].status # store[r].status} :
             s \in {"Ongoing", "Completed"}}

\* C4: on the table a cascade was called on, the rows update_chain_status(id, s)
\* overwrites are the rows delete_chain(id) removes.
C4_CascadeEquivalence ==
    (last.op \in {"delete_chain", "update_chain_status"} /\ ~last.fault) =>
        Overwritten(last.before, foreign_keys, last.quest_id)
            = Removed(last.before, foreign_keys, last.quest_id)

\* A chain 1 <- 2 <- 3 whose three rows an update of chain 1 has overwritten.
C4_Witness ==
    /\ last.op = "update_chain_status"
    /\ last.report = "ok"
    /\ last.quest_id = 1
    /\ DOMAIN last.before = 1..3
    /\ last.before[2].chain_id = Some(1)
    /\ last.before[3].chain_id = Some(2)
    /\ Removed(last.before, foreign_keys, 1) = {1, 2, 3}
    /\ \A r \in 1..3 : db[r].status = StatusCode[last.arg[1]]
    /\ \E r \in 1..3 : db[r].status # last.before[r].status

\* C5: every chain_id in the table names a row of the table with a smaller id.
C5_ParentBeforeChild == ParentBeforeChild(db)

\* C6: after a cascade, also one that failed or was interrupted, the table is
\* the one before it, or every row of the target chain is deleted (delete_chain)
\* or has the new status (update_chain_status): never some rows and not others.
C6_CascadeAtomic ==
    last.op \in {"delete_chain", "update_chain_status"} =>
        \/ db = last.before
        \/ /\ last.op = "delete_chain"
           /\ Subtree(last.before, last.quest_id) \cap DOMAIN db = {}
        \/ /\ last.op = "update_chain_status"
           /\ \A r \in Subtree(last.before, last.quest_id) :
                 r \in DOMAIN db /\ db[r].status = StatusCode[last.arg[1]]

\* A delete of a chain of three rows that failed: the three rows are there.
C6_Witness ==
    /\ last.op = "delete_chain"
    /\ last.fault
    /\ last.report = "panic"
    /\ Cardinality(Subtree(last.before, last.quest_id)) = 3
    /\ db = last.before

\* C7: abandon, complete and delete of a quest that has a child change the
\* table only when the invocation prompted and the answer was yes.  The quest
\* has a child when the invocation finds one: abandon and complete at their
\* is_main_quest, delete, which does not look, when its statement runs.
C7_NoCascadeWithoutConfirmation ==
    (/\ last.op \in CascadingOps
     /\ last.child
     /\ db # last.before) =>
        last.asked /\ last.input \in AffirmativeLines

\* complete of a quest with a child, confirmed: the child is completed too.
C7_Witness ==
    /\ last.op = "complete"
    /\ HasChild(last.before, last.quest_id)
    /\ last.asked
    /\ last.input \in AffirmativeLines
    /\ \E r \in DOMAIN db :
          /\ r # last.quest_id
          /\ last.before[r].chain_id = Some(last.quest_id)
          /\ last.before[r].status # 2
          /\ db[r].status = 2

\* C8: when the answer to the prompt of abandon, complete or delete is not
\* yes, the table is the one before the command and the command reports that
\* it did nothing.
C8_DeclineChangesNothing ==
    (/\ last.op \in CascadingOps
     /\ last.asked
     /\ last.input \notin AffirmativeLines) =>
        /\ db = last.before
        /\ last.report = CASE last.op = "abandon" -> "not abandoned"
                           [] last.op = "complete" -> "not completed"
                           [] last.op = "delete" -> "not deleted"

\* delete of a quest with a child, declined with an empty line.
C8_Witness ==
    /\ last.op = "delete"
    /\ last.asked
    /\ last.input = <<"\n">>
    /\ last.quest_id \in DOMAIN last.before
    /\ HasChild(last.before, last.quest_id)
    /\ last.report = "not deleted"
    /\ db = last.before

\* The quest of an invocation was, when the invocation read it, in the
\* status the command gives.
AlreadyThere ==
    \/ last.op = "accept" /\ last.seen = Some(1)
    \/ last.op = "complete" /\ last.seen = Some(2)
    \/ last.op = "abandon" /\ last.seen = Some(4)

\* C9: accept of an Ongoing quest, complete of a Completed one and abandon of
\* an Abandoned one change no row, do not prompt and report that the quest
\* already is in that status.
C9_IdempotentNoOp ==
    AlreadyThere =>
        /\ db = last.before
        /\ ~last.asked
        /\ last.report = CASE last.op = "accept" -> "already accepted"
                           [] last.op = "complete" -> "already completed"
                           [] last.op = "abandon" -> "already abandoned"

\* abandon of an Abandoned quest that has a child.
C9_Witness ==
    /\ last.op = "abandon"
    /\ AlreadyThere
    /\ \E r \in DOMAIN last.before :
          /\ r # last.quest_id
          /\ last.before[r].chain_id = Some(last.quest_id)
    /\ ~last.asked
    /\ last.report = "already abandoned"

\* C10: get_quest of the row add_quest inserted for a quest q returns a quest
\* with the objective, status, tier and chain_id of q.
C10_RoundTrip ==
    (last.op = "add_quest" /\ last.report = "ok") =>
        /\ last.result.err = "ok"
        /\ last.result.quest.objective = last.arg[1].objective
        /\ last.result.quest.status = last.arg[1].status
        /\ last.result.quest.tier = last.arg[1].tier
        /\ last.result.quest.chain_id = last.arg[1].chain_id

\* A Waiting, Epic quest added below quest 2 of the table and read back.
C10_Witness ==
    /\ last.op = "add_quest"
    /\ last.report = "ok"
    /\ 2 \in DOMAIN last.before
    /\ last.arg[1].chain_id = Some(2)
    /\ last.arg[1].objective = <<"c", " ", "d">>
    /\ last.arg[1].status = "Waiting"
    /\ last.arg[1].tier = "Epic"
    /\ last.result.quest.id = last.quest_id
    /\ last.result.quest.status = "Waiting"

RECURSIVE TreeLines(_, _, _)
\* The lines of a chain below a root: `indent` is what the ancestors below the
\* root contribute, a bar for one that has a later sibling and four spaces for
\* one that has none.
TreeLines(c, indent, is_last) ==
    <<indent \o (IF is_last THEN <<"U+2514", "U+2500", "U+2500", " ">>
                 ELSE <<"U+251C", "U+2500", "U+2500", " ">>)
             \o c.main.objective>>
        \o Concat([i \in 1..Len(c.chains) |->
                      TreeLines(c.chains[i],
                                indent \o (IF is_last THEN <<" ", " ", " ", " ">>
                                           ELSE <<"U+2502", " ", " ", " ">>),
                                i = Len(c.chains))])

\* The lines of a root chain: the bare objective of the root, then its children.
RootLines(c) ==
    <<c.main.objective>>
        \o Concat([i \in 1..Len(c.chains) |->
                      TreeLines(c.chains[i], <<>>, i = Len(c.chains))])

\* C11: in the log a root's objective has no prefix; the objective of a node
\* below a root is prefixed, for each ancestor between the root and the node,
\* by a bar and three spaces if that ancestor is not its parent's last child
\* and by four spaces otherwise, then by the corner if the node is its
\* parent's last child and by the tee otherwise.
C11_TreePrefixes ==
    (last.op = "log" /\ last.report = "shown") =>
        LET forest == last.result
            rows == last.table.rows
        IN [i \in 1..Len(rows) |-> rows[i][2]]
              = Concat([i \in 1..Len(forest) |-> RootLines(forest[i])])

\* The forest 1 <- {2 <- {3}, 4} of the dragon quest and its four lines.
C11_Witness ==
    /\ last.op = "log"
    /\ last.before = DragonTable
    /\ [i \in 1..Len(last.table.rows) |-> last.table.rows[i][2]]
          = << <<"D", "e", "f", "e", "a", "t", " ", "d", "r", "a", "g", "o", "n">>,
               <<"U+251C", "U+2500", "U+2500", " ",
                 "F", "i", "n", "d", " ", "s", "w", "o", "r", "d">>,
               <<"U+2502", " ", " ", " ", "U+2514", "U+2500", "U+2500", " ",
                 "S", "h", "a", "r", "p", "e", "n", " ", "s", "w", "o", "r", "d">>,
               <<"U+2514", "U+2500", "U+2500", " ",
                 "T", "r", "a", "i", "n", " ", "s", "t", "a", "m", "i", "n", "a">> >>

\* C12: add_quest of a quest whose chain_id names an id that has no row fails
\* and leaves the table as it was.
C12_AddMissingParentFails ==
    (/\ last.op = "add_quest"
     /\ last.arg[1].chain_id # None
     /\ last.arg[1].chain_id[1] \notin DOMAIN last.before) =>
        /\ last.report = "panic"
        /\ db = last.before

\* C13: update_quest of a quest whose id has no row fails and changes no row;
\* when the row exists, update_quest overwrites the objective, status, tier
\* and chain_id of exactly that row.
C13_UpdateQuest ==
    last.op = "update_quest" =>
        LET quest == last.arg[1]
        IN IF quest.id \notin DOMAIN last.before
           THEN /\ last.report = "panic"
                /\ db = last.before
           ELSE IF last.report = "ok"
                THEN db = [last.before EXCEPT ![quest.id] =
                              [chain_id  |-> quest.chain_id,
                               objective |-> quest.objective,
                               status    |-> StatusCode[quest.status],
                               tier      |-> Tier_as_i64(quest.tier)]]
                ELSE db = last.before

\* The handlers that read the quest with get_quest before they do anything.
ReadingOps == {"abandon", "accept", "complete", "modify"}

\* C14: get_quest of an id that has no row fails, and accept, complete,
\* abandon and modify of such an id are aborted with the table unchanged.
C14_MissingQuestAborts ==
    (last.op \in ReadingOps /\ last.seen = None) =>
        /\ last.quest_id \notin DOMAIN last.before
        /\ get_quest(last.before, last.quest_id).err = "panic"
        /\ last.report = "panic"
        /\ ~last.asked
        /\ db = last.before

\* modify of quest 2 in a table that holds quest 1 only.
C14_Witness ==
    /\ last.op = "modify"
    /\ last.quest_id = 2
    /\ DOMAIN last.before = {1}
    /\ last.report = "panic"
    /\ db = last.before

\* C15: delete_chain of an id that has no row affects no row: the table is
\* unchanged and the call reports no error.
C15_DeleteAbsentIsNoOp ==
    (/\ last.op = "delete_chain"
     /\ ~last.fault
     /\ last.quest_id \notin DOMAIN last.before) =>
        /\ last.report = "ok"
        /\ db = last.before

\* C16: the ids add assigns are strictly increasing over the whole history of
\* the database, so that an id that was assigned once is never assigned
\* again, also after its quest was deleted.
C16_IdsNeverReused ==
    (last.op = "add" /\ last.report = "added") =>
        /\ last.quest_id \in DOMAIN db
        /\ last.quest_id \notin DOMAIN last.before
        /\ last.quest_id > last.high

\* C17: every delete_chain and update_chain_status the CLI runs terminates:
\* on no table that add with any --sub value can build does the recursive
\* query of a cascade go on for ever.
C17_CascadesTerminate ==
    last.op \in CascadingOps => last.report # "hang"

\* C18: is_main_quest(id) is true iff at least one stored quest has chain_id
\* equal to id; it is false for a quest no quest names and for an id that has
\* no row.
C18_IsMainQuest ==
    last.op = "is_main_quest" =>
        /\ last.result <=> HasChild(last.before, last.quest_id)
        /\ last.quest_id \notin DOMAIN last.before => ~last.result

\* C19: get_all_quests returns every stored quest exactly once, in strictly
\* ascending order of id, so that in a table where every chain_id names an
\* earlier row each parent comes before its children.
C19_AscendingIds ==
    last.op = "get_all_quests" =>
        LET quests == last.result
            store == last.before
        IN /\ last.report = "ok"
           /\ Len(quests) = Cardinality(DOMAIN store)
           /\ {quests[i].id : i \in 1..Len(quests)} = DOMAIN store
           /\ \A i \in 1..Len(quests) :
                 /\ quests[i].chain_id = store[quests[i].id].chain_id
                 /\ quests[i].objective = store[quests[i].id].objective
                 /\ StatusCode[quests[i].status] = store[quests[i].id].status
                 /\ Tier_as_i64(quests[i].tier) = store[quests[i].id].tier
           /\ \A i, j \in 1..Len(quests) : i < j => quests[i].id < quests[j].id
           /\ ParentBeforeChild(store) =>
                 \A j \in 1..Len(quests) :
                     quests[j].chain_id # None =>
                         \E i \in 1..(j - 1) :
                             quests[i].id = quests[j].chain_id[1]

\* The quests 1, 3 and 4 of a table without quest 2, quest 4 below quest 3
\* and quest 3 below quest 1.
C19_Witness ==
    /\ last.op = "get_all_quests"
    /\ DOMAIN last.before = {1, 3, 4}
    /\ last.before[3].chain_id = Some(1)
    /\ last.before[4].chain_id = Some(3)
    /\ Len(last.result) = 3
    /\ last.result[2].id = 3
    /\ last.result[3].id = 4

\* C20: after any adds and modifies, with any objective argument, every
\* stored quest has a non-empty objective.
C20_ObjectiveNonEmpty ==
    \A r \in DOMAIN db : db[r].objective # <<>>

\* The encoding of tiers the schema documents.
TierCode == [Common |-> 0, Rare |-> 1, Epic |-> 2, Legendary |-> 3]

\* The row holds a status and a tier of the enums.
InRange(row) == row.status \in 0..4 /\ row.tier \in 0..3

\* The quest is the row with its status and tier decoded back.
DecodedFrom(quest, row) ==
    /\ quest.status \in Status
    /\ quest.tier \in Tier
    /\ StatusCode[quest.status] = row.status
    /\ TierCode[quest.tier] = row.tier
    /\ quest.objective = row.objective
    /\ quest.chain_id = row.chain_id

\* C21: a stored status in 0..4 and a stored tier in 0..3 are decoded to the
\* status and the tier that are written as these integers; for any other
\* stored integer the read fails and yields no quest, never a quest with
\* another status or tier in its place.
C21_DecodeOrFail ==
    /\ (last.op = "get_quest" /\ last.quest_id \in DOMAIN last.before) =>
           IF InRange(last.before[last.quest_id])
           THEN /\ last.report = "ok"
                /\ DecodedFrom(last.result, last.before[last.quest_id])
           ELSE /\ last.report = "panic"
                /\ last.result = None
    /\ last.op = "get_all_quests" =>
           IF \A r \in DOMAIN last.before : InRange(last.before[r])
           THEN /\ last.report = "ok"
                /\ \A i \in 1..Len(last.result) :
                      DecodedFrom(last.result[i],
                                  last.before[last.result[i].id])
           ELSE /\ last.report = "panic"
                /\ last.result = <<>>

\* get_quest of a row whose status column holds 5.
C21_Witness ==
    /\ last.op = "get_quest"
    /\ last.quest_id \in DOMAIN last.before
    /\ last.before[last.quest_id].status = 5
    /\ last.report = "panic"

\* The line is a text between white space, and nothing else.
Surrounded(line, texts) ==
    \E i \in 1..Len(line) : \E j \in i..Len(line) :
        /\ \A k \in 1..(i - 1) : line[k] \in WhiteSpace
        /\ \A k \in (j + 1)..Len(line) : line[k] \in WhiteSpace
        /\ SubSeq(line, i, j) \in texts

\* "y" and "yes" in every mix of upper and lower case.
YesTexts ==
    {<<a>> : a \in {"y", "Y"}}
        \cup {<<a, b, c>> : a \in {"y", "Y"}, b \in {"e", "E"}, c \in {"s", "S"}}

\* C22: confirmation_warning returns true exactly when the line read is,
\* between leading and trailing white space and in any case of the letters,
\* "y" or "yes"; every other line, also the empty one, declines.
C22_OnlyYesProceeds ==
    last.op = "confirmation_warning" =>
        (last.result <=> Surrounded(last.input, YesTexts))

\* The line `YeS` after a no-break space, with its newline, is taken for a
\* yes.
C22_Witness ==
    /\ last.op = "confirmation_warning"
    /\ last.input = <<"U+00A0", "Y", "e", "S", "\n">>
    /\ last.result = TRUE

\* C23: after Table::new and any adds, the width recorded for a column is the
\* largest of the width of its header cell and the widths of the cells added
\* to it so far, and no add makes a recorded width smaller.
C23_ColumnWidths ==
    last.op \in {"table_new", "table_add"} =>
        LET table == last.table
        IN /\ Len(table.column_widths) = Len(table.columns)
           /\ \A i \in 1..Len(table.columns) :
                 table.column_widths[i] =
                     Max({Len(table.columns[i])}
                             \cup {Len(table.rows[k][i]) :
                                      k \in 1..Len(table.rows)})
           /\ last.op = "table_add" =>
                 \A i \in 1..Len(table.columns) :
                     table.column_widths[i] >= last.result.column_widths[i]

\* A cell of width 3 widens the first column, and the narrower cell added
\* after it leaves the width at 3.
C23_Witness ==
    /\ last.op = "table_add"
    /\ Len(last.table.rows) = 2
    /\ Len(last.table.rows[1][1]) = 3
    /\ Len(last.table.rows[2][1]) = 1
    /\ last.table.column_widths[1] = 3

\* C24: on a quest list in which every chain_id names an earlier quest, the
\* reconciliation of get_all_chains ends, no removal from the lookup misses,
\* and after the last root the lookup is empty: every id was removed once.
C24_LookupConsumed ==
    (last.op = "log" /\ ParentBeforeChild(last.before)) =>
        LET read == get_all_chains(last.before)
        IN /\ last.report = "shown"
           /\ read.err = "ok"
           /\ read.disjoint_chains = <<>>
           /\ Len(Concat([i \in 1..Len(last.result) |->
                             Preorder(last.result[i])]))
                 = Cardinality(DOMAIN last.before)

\* Two roots, one of them with a child and a grandchild.
C24_Witness ==
    /\ last.op = "log"
    /\ ParentBeforeChild(last.before)
    /\ DOMAIN last.before = 1..4
    /\ last.before[2].chain_id = None
    /\ last.before[3].chain_id = Some(1)
    /\ last.before[4].chain_id = Some(3)
    /\ last.report = "shown"
    /\ Len(last.result) = 2

RECURSIVE ChildrenAscend(_)
\* In the chain every child list is in ascending order of id, at any depth.
ChildrenAscend(c) ==
    /\ \A i, j \in 1..Len(c.chains) :
          i < j => c.chains[i].main.id < c.chains[j].main.id
    /\ \A i \in 1..Len(c.chains) : ChildrenAscend(c.chains[i])

\* C25: in the forest get_all_chains returns the roots are in ascending order
\* of id and so is the child list of every node, also where the children
\* were attached after their parent was copied into its own parent's list.
C25_AscendingForest ==
    (last.op = "log" /\ last.report = "shown") =>
        LET forest == last.result
        IN /\ \A i, j \in 1..Len(forest) :
                 i < j => forest[i].main.id < forest[j].main.id
           /\ \A i \in 1..Len(forest) : ChildrenAscend(forest[i])

\* The forest 1 <- 2 <- {3, 4}: quests 3 and 4 arrive after quest 2 was
\* copied into the child list of quest 1.
C25_Witness ==
    /\ last.op = "log"
    /\ last.report = "shown"
    /\ DOMAIN last.before = 1..4
    /\ last.before[2].chain_id = Some(1)
    /\ last.before[3].chain_id = Some(2)
    /\ last.before[4].chain_id = Some(2)
    /\ Len(last.result) = 1
    /\ Len(last.result[1].chains) = 1
    /\ Len(last.result[1].chains[1].chains) = 2
    /\ last.result[1].chains[1].chains[1].main.id = 3
    /\ last.result[1].chains[1].chains[2].main.id = 4

\* C26: accept of a quest that is not Ongoing when accept reads it sets the
\* status of exactly that quest to Ongoing: it asks for no confirmation, also
\* when the quest has children, and its write leaves the objective, tier and
\* chain_id of the quest and every other row as they were.
C26_AcceptFrame ==
    (/\ last.op = "accept"
     /\ last.seen # None
     /\ last.seen # Some(StatusCode["Ongoing"])) =>
        /\ ~last.asked
        /\ last.report = "accepted"
        /\ DOMAIN db = DOMAIN last.before
        /\ last.quest_id \in DOMAIN db
        /\ db[last.quest_id] =
              [last.before[last.quest_id] EXCEPT !.status = StatusCode["Ongoing"]]
        /\ \A r \in DOMAIN db \ {last.quest_id} : db[r] = last.before[r]

\* The stored status abandon and complete write.
RequestedCode(op) == IF op = "abandon" THEN StatusCode["Abandoned"]
                     ELSE StatusCode["Completed"]

\* C27: delete asks for confirmation on every invocation, also for a quest
\* without children and for an id without a row; abandon and complete ask
\* exactly when the quest has a child and is not yet in the requested
\* status; abandon or complete of a quest without children changes exactly
\* the row of that quest, without a prompt.  The status is the one the
\* invocation reads, the children those it finds with is_main_quest.
C27_WhoIsAsked ==
    /\ last.op = "delete" => last.asked
    /\ last.op \in {"abandon", "complete"} =>
          LET id == last.quest_id
              store == last.before
              due == /\ last.seen # None
                     /\ last.seen # Some(RequestedCode(last.op))
          IN /\ last.asked <=> (due /\ last.child)
             /\ (due /\ ~last.child) =>
                   /\ id \in DOMAIN store
                   /\ db = [store EXCEPT ![id].status = RequestedCode(last.op)]

\* C28: in every table the commands leave, every stored status is in 0..4
\* and every stored tier in 0..3, so that get_quest of a stored quest and
\* get_all_quests never fail on an unknown status or tier.
C28_StoredEnumsInRange ==
    /\ \A r \in DOMAIN db :
          /\ db[r].status \in 0..4
          /\ db[r].tier \in 0..3
          /\ get_quest(db, r).err = "ok"
    /\ get_all_quests(db).err = "ok"

\* A quest added as Abandoned and Legendary: the largest integers written.
C28_Witness ==
    /\ last.op = "add"
    /\ last.report = "added"
    /\ db[last.quest_id].status = 4
    /\ db[last.quest_id].tier = 3

====
